---- MODULE Spec2Model ----
(***************************************************************************)
(* Model of PhpMyAdminScraper (src/main.py): the process entry point, the  *)
(* constructor, run() with its step-by-step control flow, and the pure     *)
(* parts of the login-form extraction, the authentication check, the table *)
(* parser and the presenter.                                               *)
(*                                                                         *)
(* Text is a sequence of one-character strings, so that substring search   *)
(* and trimming are computed and not assumed.  A Python Optional value is  *)
(* None == <<>> or Some(x) == <<x>>.                                       *)
(***************************************************************************)
EXTENDS Integers, Sequences, FiniteSets, TLC

VARIABLES
    pc,          \* position of the process: "main", a step of run(), "exit", or a function spec's position
    session,     \* "none" (not created), "open", "closed"
    closeCalls,  \* number of calls of session.close()
    log,         \* the log sink: sequence of <<level, message id>>
    trace,       \* the steps run() performed: sequence of <<step, outcome>>, the outcome being
                 \* "ok", "fail" (a negative result) or the class of the exception raised
    exc,         \* the exception in flight (None or Some(class name))
    username,    \* self.username
    password,    \* self.password
    page,        \* the parsed login page handed to the form extraction
    form_data,   \* run's local form_data (None before the form is read)
    response,    \* run's local response (None before a request succeeded)
    auth,        \* the result of _check_auth_success (None before it is called)
    html,        \* the document handed to _parse_table_data
    parsed,      \* the (headers, rows) pair _parse_table_data returned (None before it is called)
    output       \* the output sink: the printed lines

vars == <<pc, session, closeCalls, log, trace, exc, username, password,
          page, form_data, response, auth, html, parsed, output>>

None == <<>>
Some(x) == <<x>>

----------------------------------------------------------------------------
(* Bounds of the model *)

MaxInputs == 2        \* input elements inside a login form (function spec)
MaxHeaders == 2       \* th elements of a results table (function spec)
MaxRows == 2          \* tr elements of a results table (function spec)
MaxFragments == 3     \* fragments a response body is concatenated from (function spec)

\* the number of leading action cells dropped from every body row
ActionColumns == 4

----------------------------------------------------------------------------
(* Text *)

FrameNavigation == <<"f","r","a","m","e","_","n","a","v","i","g","a","t","i","o","n">>
PmaNavigationTree == <<"p","m","a","_","n","a","v","i","g","a","t","i","o","n","_","t","r","e","e">>

Whitespace == {" ", "\n"}

\* Python's `needle in hay` for str: scan the start positions left to right
RECURSIVE FindFrom(_, _, _)
FindFrom(needle, hay, i) ==
    IF i + Len(needle) - 1 > Len(hay) THEN FALSE
    ELSE IF SubSeq(hay, i, i + Len(needle) - 1) = needle THEN TRUE
    ELSE FindFrom(needle, hay, i + 1)

StrIn(needle, hay) == FindFrom(needle, hay, 1)

\* str.strip(): drop the leading and the trailing whitespace
RECURSIVE LStrip(_)
LStrip(s) == IF s # <<>> /\ Head(s) \in Whitespace THEN LStrip(Tail(s)) ELSE s

RECURSIVE RStrip(_)
RStrip(s) ==
    IF s # <<>> /\ s[Len(s)] \in Whitespace THEN RStrip(SubSeq(s, 1, Len(s) - 1)) ELSE s

Strip(s) == RStrip(LStrip(s))

\* sep.join(items)
RECURSIVE Join(_, _)
Join(sep, items) ==
    IF items = <<>> THEN <<>>
    ELSE IF Len(items) = 1 THEN items[1]
    ELSE items[1] \o sep \o Join(sep, Tail(items))

\* sum(len(h) for h in headers)
RECURSIVE SumLen(_)
SumLen(items) == IF items = <<>> THEN 0 ELSE Len(items[1]) + SumLen(Tail(items))

\* "-" * n  (the empty string when n <= 0)
Dashes(n) == [i \in 1..n |-> "-"]

\* all sequences over S of length at most n
RECURSIVE SeqsUpTo(_, _)
SeqsUpTo(S, n) ==
    IF n = 0 THEN {<<>>}
    ELSE LET shorter == SeqsUpTo(S, n - 1)
         IN  shorter \cup {Append(s, x) : s \in shorter, x \in S}

----------------------------------------------------------------------------
(* The login form: _get_login_form_data, after the page has been fetched *)

UsernameKey == "pma_username"
PasswordKey == "pma_password"

\* form_data[k] = v
DictSet(d, k, v) == [x \in (DOMAIN d) \cup {k} |-> IF x = k THEN v ELSE d[x]]

\* find_all("input") without the type filter
HiddenInputsAnyType(inputs) == inputs

\* the inputs login_form.find_all("input", type="hidden") returns, in document order
HiddenInputs(inputs) == SelectSeq(inputs, LAMBDA inp : inp.type = "hidden")

\* the loop over the hidden inputs: only those with both attributes are stored
RECURSIVE AddHidden(_, _)
AddHidden(d, hidden) ==
    IF hidden = <<>> THEN d
    ELSE LET inp == Head(hidden)
         IN  IF inp.name # None /\ inp.value # None
             THEN AddHidden(DictSet(d, inp.name[1], inp.value[1]), Tail(hidden))
             ELSE AddHidden(d, Tail(hidden))

\* the outcome of the extraction on a fetched page: the payload, or the
\* ValueError raised (and logged, then logged again by the generic handler)
LoginFormData(pg, u, p) ==
    IF ~pg.form
    THEN [exc |-> Some("ValueError"), val |-> None,
          logs |-> << <<"ERROR", "form_not_found">>, <<"ERROR", "form_unexpected">> >>]
    ELSE [exc |-> None,
          val |-> Some(AddHidden([k \in {UsernameKey, PasswordKey} |->
                                     IF k = UsernameKey THEN u ELSE p],
                                 HiddenInputs(pg.inputs))),
          logs |-> << <<"DEBUG", "form_data">> >>]

----------------------------------------------------------------------------
(* _check_auth_success *)

\* the try block with the two marker tests joined by `or`: both markers needed
CheckAuthBodyBothMarkers(resp) ==
    IF resp.text_raises
    THEN [exc |-> Some("Exception"), result |-> FALSE, logs |-> <<>>]
    ELSE IF ~StrIn(FrameNavigation, resp.text) \/ ~StrIn(PmaNavigationTree, resp.text)
         THEN [exc |-> None, result |-> FALSE, logs |-> << <<"WARNING", "auth_failed">> >>]
         ELSE [exc |-> None, result |-> TRUE, logs |-> << <<"INFO", "auth_ok">> >>]

\* the try block.  A response: reading .text either yields the body or raises.
CheckAuthBody(resp) ==
    IF resp.text_raises
    THEN [exc |-> Some("Exception"), result |-> FALSE, logs |-> <<>>]
    ELSE IF ~StrIn(FrameNavigation, resp.text) /\ ~StrIn(PmaNavigationTree, resp.text)
         THEN [exc |-> None, result |-> FALSE, logs |-> << <<"WARNING", "auth_failed">> >>]
         ELSE [exc |-> None, result |-> TRUE, logs |-> << <<"INFO", "auth_ok">> >>]

\* the whole method: `except Exception` logs and returns False
CheckAuthSuccess(resp) ==
    LET r == CheckAuthBody(resp)
    IN  IF r.exc # None
        THEN [exc |-> None, result |-> FALSE, logs |-> << <<"ERROR", "auth_check_error">> >>]
        ELSE r

----------------------------------------------------------------------------
(* _parse_table_data *)

\* th.find("a").get_text(strip=True) if th.find("a") else th.get_text(strip=True)
HeaderText(th) == IF th.a # None THEN Strip(th.a[1]) ELSE Strip(th.text)

\* results_table.find_all("th", {"class": "column_heading"}) and the loop over it
Headers(ths) ==
    LET cells == SelectSeq(ths, LAMBDA th : th.column_heading)
    IN  [i \in 1..Len(cells) |-> HeaderText(cells[i])]

\* tr.find_all("td")[4:]
DropActions(tds) == SubSeq(tds, ActionColumns + 1, Len(tds))

\* [td.get_text(strip=True) for td in cells]
RowData(tds) == LET cells == DropActions(tds) IN [j \in 1..Len(cells) |-> Strip(cells[j])]

\* the try block.  A table without a tbody makes results_table.find("tbody")
\* None, and None.find_all raises AttributeError.
ParseTableBody(doc) ==
    IF ~doc.table
    THEN [exc |-> None, headers |-> None, rows |-> None,
          logs |-> << <<"WARNING", "table_not_found">> >>]
    ELSE IF ~doc.tbody
         THEN [exc |-> Some("AttributeError"), headers |-> None, rows |-> None, logs |-> <<>>]
         ELSE [exc |-> None,
               headers |-> Some(Headers(doc.ths)),
               rows |-> Some([i \in 1..Len(doc.trs) |-> RowData(doc.trs[i])]),
               logs |-> << <<"INFO", "parsed">> >>]

\* the method without its `except Exception`
ParseTableDataNoHandler(doc) == ParseTableBody(doc)

\* the whole method: `except Exception` logs and returns (None, None)
ParseTableData(doc) ==
    LET r == ParseTableBody(doc)
    IN  IF r.exc # None
        THEN [exc |-> None, headers |-> None, rows |-> None,
              logs |-> << <<"ERROR", "parse_error">> >>]
        ELSE r

----------------------------------------------------------------------------
(* _print_results *)

\* the title line (the source prints a newline followed by a Russian word for "Result:")
ResultTitle == <<"\n", "R", "e", "s", "u", "l", "t", ":">>
ColumnSeparator == <<" ", "|", " ">>

\* the lines _print_results prints, in order
PrintedLines(headers, rows) ==
    << ResultTitle,
       Join(ColumnSeparator, headers),
       Dashes(SumLen(headers) + Len(ColumnSeparator) * (Len(headers) - 1)) >>
    \o [i \in 1..Len(rows) |-> Join(ColumnSeparator, rows[i])]

\* a guard that tests the headers only: `if headers`
ShouldPresentHeadersOnly(headers, rows) == headers # None /\ headers[1] # <<>>

\* the guard of run(): `if headers and rows`
ShouldPresent(headers, rows) ==
    /\ headers # None /\ headers[1] # <<>>
    /\ rows # None /\ rows[1] # <<>>

----------------------------------------------------------------------------
(* Inputs *)

Usernames == {"root", "admin"}
Passwords == {"secret"}

\* input elements: type, optional name attribute, optional value attribute
InputNames == {None, Some("token"), Some("set_session"), Some(UsernameKey)}
InputValues == {None, Some("xyz"), Some("abc")}
Inputs == [type : {"hidden", "text"}, name : InputNames, value : InputValues]

OuterInput == [type |-> "hidden", name |-> Some("outer"), value |-> Some("zzz")]

\* a fetched login page: whether it holds form#login_form, the input elements
\* inside that form, and the input elements elsewhere on the page
LoginPages(n) ==
    {[form |-> FALSE, inputs |-> <<>>, outside |-> o] : o \in {<<>>, <<OuterInput>>}}
    \cup {[form |-> TRUE, inputs |-> i, outside |-> o] :
             i \in SeqsUpTo(Inputs, n), o \in {<<>>, <<OuterInput>>}}

\* response bodies: concatenations of fragments, among them the two markers,
\* markers with a letter missing, and the missing letters
HtmlJunk == <<"<","h","t","m","l",">">>
BodyFragments ==
    { HtmlJunk, FrameNavigation, PmaNavigationTree,
      <<"f","r","a","m","e","_","n","a","v","i","g","a","t","i","o">>, <<"n">>,
      <<"m","a","_","n","a","v","i","g","a","t","i","o","n","_","t","r","e","e">>, <<"p">>,
      <<"F","R","A","M","E","_","N","A","V","I","G","A","T","I","O","N">> }

RECURSIVE Concat(_)
Concat(ss) == IF ss = <<>> THEN <<>> ELSE Head(ss) \o Concat(Tail(ss))

Bodies(n) == {Concat(fs) : fs \in SeqsUpTo(BodyFragments, n)}

LoginResponses(n) ==
    {[text_raises |-> TRUE, text |-> <<>>]}
    \cup {[text_raises |-> FALSE, text |-> b] : b \in Bodies(n)}

\* th elements: whether of class column_heading, the text of the inner link
\* (if there is one), the text of the cell
ThCells ==
    { [column_heading |-> TRUE, a |-> Some(<<" ","I","D">>), text |-> <<" ","I","D">>],
      [column_heading |-> TRUE, a |-> None, text |-> <<"N","a","m","e","\n">>],
      [column_heading |-> TRUE, a |-> None, text |-> <<>>],
      [column_heading |-> FALSE, a |-> None, text |-> <<"#">>] }

\* tr elements: the texts of their td cells
Edit == <<"e","d","i","t">>
TrRows ==
    { <<>>,
      <<Edit, Edit, Edit>>,
      <<Edit, Edit, Edit, Edit>>,
      <<Edit, Edit, Edit, Edit, <<" ","4","2"," ">> >>,
      <<Edit, Edit, Edit, Edit, <<"4","2">>, <<"A","l","i","c","e","\n">> >>,
      <<Edit, Edit, Edit, Edit, <<"A","l","i","c","e">>, <<>> >> }

\* a page: whether it holds table.table_results, its th elements, whether it
\* has a tbody, and its tr elements (inside the tbody when there is one)
NoTableDoc == [table |-> FALSE, ths |-> <<>>, tbody |-> FALSE, trs |-> <<>>]
TableDocs(nh, nr) ==
    {NoTableDoc}
    \cup {[table |-> TRUE, ths |-> h, tbody |-> b, trs |-> r] :
             h \in SeqsUpTo(ThCells, nh), b \in BOOLEAN, r \in SeqsUpTo(TrRows, nr)}

\* what the server serves during a run
RunPages == {pg \in LoginPages(1) : pg.outside = <<>> /\
                \A i \in 1..Len(pg.inputs) : pg.inputs[i].type = "hidden" /\ pg.inputs[i].name = Some("token")}
RunLoginResponses ==
    {[text_raises |-> TRUE, text |-> <<>>]}
    \cup {[text_raises |-> FALSE, text |-> b] :
             b \in {HtmlJunk, HtmlJunk \o FrameNavigation, PmaNavigationTree \o HtmlJunk}}
RunDocs ==
    {d \in TableDocs(1, 1) :
        /\ \A i \in 1..Len(d.ths) : d.ths[i].a # None
        /\ \A i \in 1..Len(d.trs) : Len(d.trs[i]) \in {3, 6}}
RunTableResponses ==
    {[text_raises |-> TRUE, text |-> NoTableDoc]}
    \cup {[text_raises |-> FALSE, text |-> d] : d \in RunDocs}

HttpOutcomes == {"ok", "RequestException", "Exception"}

----------------------------------------------------------------------------
(* The process: __main__, the constructor and run() *)

Init ==
    /\ pc = "main"
    /\ session = "none"
    /\ closeCalls = 0
    /\ log = <<>>
    /\ trace = <<>>
    /\ exc = None
    /\ username \in Usernames
    /\ password \in Passwords
    /\ page = None
    /\ form_data = None
    /\ response = None
    /\ auth = None
    /\ html = None
    /\ parsed = None
    /\ output = <<>>

\* a return that leaves run() without passing through the finally clause
ReturnFromRunSkipsFinally == "exit"

\* where a `return` inside the try block of run() leads: the finally clause
ReturnFromRun == "finally"

\* where an exception leaving the try block of run() leads: `except Exception`
RaiseInRun == "run_except"

\* no handler around the login POST: every exception leaves the try block
PostHandlerAbsent(e) == RaiseInRun

\* the handler around the login POST: `except requests.RequestException` logs
\* and returns, anything else leaves the try block
PostHandler(e) == IF e = "RequestException" THEN ReturnFromRun ELSE RaiseInRun

\* the handler around the table GET, of the same shape
TableHandler(e) == IF e = "RequestException" THEN ReturnFromRun ELSE RaiseInRun

\* the result of the authentication check ignored
AfterAuthIgnored(result) == "get_table"

\* `if not self._check_auth_success(response): return`
AfterAuth(result) == IF result THEN "get_table" ELSE ReturnFromRun

\* PhpMyAdminScraper(**phpadmin_config): the session is created, then
\* _setup_session either updates the headers or logs and re-raises
Construct ==
    /\ pc = "main"
    /\ session' = "open"
    /\ \E ok \in BOOLEAN :
          IF ok
          THEN /\ log' = Append(log, <<"INFO", "session_setup">>)
               /\ exc' = None
               /\ pc' = "get_login"
          ELSE /\ log' = Append(log, <<"ERROR", "session_setup">>)
               /\ exc' = Some("Exception")
               /\ pc' = "main_except"
    /\ UNCHANGED <<closeCalls, trace, username, password, page, form_data,
                   response, auth, html, parsed, output>>

\* the `except Exception` of __main__
MainExcept ==
    /\ pc = "main_except"
    /\ log' = Append(log, <<"CRITICAL", "main">>)
    /\ exc' = None
    /\ pc' = "exit"
    /\ UNCHANGED <<session, closeCalls, trace, username, password, page,
                   form_data, response, auth, html, parsed, output>>

\* form_data = self._get_login_form_data()
RunGetLoginForm ==
    /\ pc = "get_login"
    /\ \E o \in HttpOutcomes :
          IF o # "ok"
          THEN /\ log' = log \o << <<"INFO", "get_login">>,
                                   <<"ERROR", IF o = "RequestException"
                                              THEN "form_request" ELSE "form_unexpected">> >>
               /\ trace' = Append(trace, <<"GET_login", o>>)
               /\ exc' = Some(o)
               /\ pc' = RaiseInRun
               /\ UNCHANGED <<page, form_data>>
          ELSE \E pg \in RunPages :
                  LET r == LoginFormData(pg, username, password)
                  IN  /\ page' = Some(pg)
                      /\ form_data' = r.val
                      /\ exc' = r.exc
                      /\ IF r.exc # None
                         THEN /\ log' = log \o << <<"INFO", "get_login">> >> \o r.logs
                              /\ trace' = Append(trace, <<"GET_login", r.exc[1]>>)
                              /\ pc' = RaiseInRun
                         ELSE /\ log' = log \o << <<"INFO", "get_login">> >> \o r.logs
                                            \o << <<"INFO", "post_login">> >>
                              /\ trace' = Append(trace, <<"GET_login", "ok">>)
                              /\ pc' = "post"
    /\ UNCHANGED <<session, closeCalls, username, password, response, auth,
                   html, parsed, output>>

\* response = self.session.post(...); response.raise_for_status()
RunPost ==
    /\ pc = "post"
    /\ \E o \in HttpOutcomes :
          IF o # "ok"
          THEN /\ trace' = Append(trace, <<"POST_login", o>>)
               /\ pc' = PostHandler(o)
               /\ IF PostHandler(o) = RaiseInRun
                  THEN exc' = Some(o) /\ log' = log
                  ELSE exc' = None /\ log' = Append(log, <<"ERROR", "post_login">>)
               /\ UNCHANGED response
          ELSE \E resp \in RunLoginResponses :
                  /\ response' = Some(resp)
                  /\ trace' = Append(trace, <<"POST_login", "ok">>)
                  /\ pc' = "check_auth"
                  /\ UNCHANGED <<exc, log>>
    /\ UNCHANGED <<session, closeCalls, username, password, page, form_data,
                   auth, html, parsed, output>>

\* if not self._check_auth_success(response): return
RunCheckAuth ==
    /\ pc = "check_auth"
    /\ LET r == CheckAuthSuccess(response[1])
       IN  /\ log' = log \o r.logs
           /\ exc' = r.exc
           /\ IF r.exc # None
              THEN /\ auth' = None
                   /\ trace' = Append(trace, <<"check_auth", r.exc[1]>>)
                   /\ pc' = RaiseInRun
              ELSE /\ auth' = Some(r.result)
                   /\ trace' = Append(trace, <<"check_auth", IF r.result THEN "ok" ELSE "fail">>)
                   /\ pc' = AfterAuth(r.result)
    /\ UNCHANGED <<session, closeCalls, username, password, page, form_data,
                   response, html, parsed, output>>

\* response = self.session.get(table_url); response.raise_for_status()
RunGetTable ==
    /\ pc = "get_table"
    /\ \E o \in HttpOutcomes :
          IF o # "ok"
          THEN /\ trace' = Append(trace, <<"GET_table", o>>)
               /\ pc' = TableHandler(o)
               /\ IF TableHandler(o) = RaiseInRun
                  THEN exc' = Some(o) /\ log' = Append(log, <<"INFO", "get_table">>)
                  ELSE exc' = None /\ log' = log \o << <<"INFO", "get_table">>,
                                                       <<"ERROR", "get_table">> >>
               /\ UNCHANGED response
          ELSE \E resp \in RunTableResponses :
                  /\ response' = Some(resp)
                  /\ trace' = Append(trace, <<"GET_table", "ok">>)
                  /\ pc' = "parse"
                  /\ exc' = exc
                  /\ log' = Append(log, <<"INFO", "get_table">>)
    /\ UNCHANGED <<session, closeCalls, username, password, page, form_data,
                   auth, html, parsed, output>>

\* headers, rows = self._parse_table_data(response.text); if headers and rows: ...
RunParse ==
    /\ pc = "parse"
    /\ IF response[1].text_raises
       THEN /\ exc' = Some("Exception")
            /\ pc' = RaiseInRun
            /\ UNCHANGED <<log, trace, html, parsed>>
       ELSE LET r == ParseTableData(response[1].text)
            IN  /\ html' = Some(response[1].text)
                /\ log' = log \o r.logs
                /\ exc' = r.exc
                /\ IF r.exc # None
                   THEN /\ parsed' = None
                        /\ trace' = Append(trace, <<"parse", r.exc[1]>>)
                        /\ pc' = RaiseInRun
                   ELSE /\ parsed' = Some([headers |-> r.headers, rows |-> r.rows])
                        /\ trace' = Append(trace, <<"parse", IF r.headers # None
                                                            THEN "ok" ELSE "fail">>)
                        /\ pc' = IF ShouldPresent(r.headers, r.rows)
                                 THEN "present" ELSE ReturnFromRun
    /\ UNCHANGED <<session, closeCalls, username, password, page, form_data,
                   response, auth, output>>

\* self._print_results(headers, rows): the sink takes the first k lines; when it
\* refuses a line the method logs and re-raises
RunPresent ==
    /\ pc = "present"
    /\ LET lines == PrintedLines(parsed[1].headers[1], parsed[1].rows[1])
       IN  \E k \in 0..Len(lines) :
              /\ output' = output \o SubSeq(lines, 1, k)
              /\ IF k = Len(lines)
                 THEN /\ log' = Append(log, <<"INFO", "printed">>)
                      /\ trace' = Append(trace, <<"present", "ok">>)
                      /\ exc' = None
                      /\ pc' = ReturnFromRun
                 ELSE /\ log' = Append(log, <<"ERROR", "print_error">>)
                      /\ trace' = Append(trace, <<"present", "Exception">>)
                      /\ exc' = Some("Exception")
                      /\ pc' = RaiseInRun
    /\ UNCHANGED <<session, closeCalls, username, password, page, form_data,
                   response, auth, html, parsed>>

\* the `except Exception` of run()
RunExcept ==
    /\ pc = "run_except"
    /\ log' = Append(log, <<"CRITICAL", "run">>)
    /\ exc' = None
    /\ pc' = "finally"
    /\ UNCHANGED <<session, closeCalls, trace, username, password, page,
                   form_data, response, auth, html, parsed, output>>

\* the finally clause of run(): session.close(), whose failure is logged;
\* run() then returns to __main__, which has nothing left to do
RunFinally ==
    /\ pc = "finally"
    /\ closeCalls' = closeCalls + 1
    /\ \E ok \in BOOLEAN :
          IF ok
          THEN session' = "closed" /\ log' = Append(log, <<"INFO", "closed">>)
          ELSE session' = session /\ log' = Append(log, <<"ERROR", "close_error">>)
    /\ pc' = "exit"
    /\ UNCHANGED <<trace, exc, username, password, page, form_data, response,
                   auth, html, parsed, output>>

Next ==
    \/ Construct
    \/ MainExcept
    \/ RunGetLoginForm
    \/ RunPost
    \/ RunCheckAuth
    \/ RunGetTable
    \/ RunParse
    \/ RunPresent
    \/ RunExcept
    \/ RunFinally

Spec == Init /\ [][Next]_vars

----------------------------------------------------------------------------
(* The functions on their own: the inputs are drawn by the initial state and *)
(* one action applies the function.                                          *)

Idle ==
    /\ session = "none"
    /\ closeCalls = 0
    /\ log = <<>>
    /\ trace = <<>>
    /\ exc = None
    /\ output = <<>>

\* the form extraction of _get_login_form_data on a fetched page
InitForm ==
    /\ Idle
    /\ pc = "form_call"
    /\ username \in Usernames
    /\ password \in Passwords
    /\ page \in {Some(pg) : pg \in LoginPages(MaxInputs)}
    /\ form_data = None /\ response = None /\ auth = None /\ html = None /\ parsed = None

FormApply ==
    /\ pc = "form_call"
    /\ LET r == LoginFormData(page[1], username, password)
       IN  /\ form_data' = r.val
           /\ exc' = r.exc
           /\ log' = log \o r.logs
    /\ pc' = "form_done"
    /\ UNCHANGED <<session, closeCalls, trace, username, password, page,
                   response, auth, html, parsed, output>>

SpecForm == InitForm /\ [][FormApply]_vars

\* _check_auth_success on a response
InitAuth ==
    /\ Idle
    /\ pc = "auth_call"
    /\ username = "root" /\ password = "secret"
    /\ response \in {Some(r) : r \in LoginResponses(MaxFragments)}
    /\ page = None /\ form_data = None /\ auth = None /\ html = None /\ parsed = None

AuthApply ==
    /\ pc = "auth_call"
    /\ LET r == CheckAuthSuccess(response[1])
       IN  /\ auth' = IF r.exc # None THEN None ELSE Some(r.result)
           /\ exc' = r.exc
           /\ log' = log \o r.logs
    /\ pc' = "auth_done"
    /\ UNCHANGED <<session, closeCalls, trace, username, password, page,
                   form_data, response, html, parsed, output>>

SpecAuth == InitAuth /\ [][AuthApply]_vars

\* _parse_table_data on a document
InitParse ==
    /\ Idle
    /\ pc = "parse_call"
    /\ username = "root" /\ password = "secret"
    /\ html \in {Some(d) : d \in TableDocs(MaxHeaders, MaxRows)}
    /\ page = None /\ form_data = None /\ response = None /\ auth = None /\ parsed = None

ParseApply ==
    /\ pc = "parse_call"
    /\ LET r == ParseTableData(html[1])
       IN  /\ parsed' = IF r.exc # None THEN None
                        ELSE Some([headers |-> r.headers, rows |-> r.rows])
           /\ exc' = r.exc
           /\ log' = log \o r.logs
    /\ pc' = "parse_done"
    /\ UNCHANGED <<session, closeCalls, trace, username, password, page,
                   form_data, response, auth, html, output>>

SpecParse == InitParse /\ [][ParseApply]_vars

----------------------------------------------------------------------------
(* Properties of run() and of the process, checked under Spec *)

StepOrder == <<"GET_login", "POST_login", "check_auth", "GET_table", "parse", "present">>

RunStarted == trace # <<>>
LastStep == trace[Len(trace)]
Performed(step) == \E i \in 1..Len(trace) : trace[i][1] = step
Logged(level) == \E i \in 1..Len(log) : log[i][1] = level
LoggedMsg(level, msg) == \E i \in 1..Len(log) : log[i] = <<level, msg>>

\* C1: in every execution of run() (normal completion, each early return, an
\* exception of the login-form fetch or of the presenter) session.close() is
\* called exactly once: never more than once at any time, and once by the
\* time the process ends after run() started.
C1_ClosedExactlyOnce ==
    /\ closeCalls <= 1
    /\ (pc = "exit" /\ RunStarted) => closeCalls = 1
    /\ (RunStarted /\ pc # "exit") => closeCalls = 0

C1_Witness ==
    /\ pc = "exit"
    /\ closeCalls = 1
    /\ LastStep = <<"present", "Exception">>

\* C2: whenever the process ends after the session object was created, the
\* session cleanup was attempted, no exception is left to escape, and a
\* construction failure was logged at critical severity.
C2_CleanupBeforeExit ==
    (pc = "exit" /\ session # "none") =>
        /\ closeCalls >= 1
        /\ exc = None
        /\ (~RunStarted => Logged("CRITICAL"))

\* C3: the steps of run() are a prefix of GET login page, POST login,
\* authentication check, GET table view, parse, present (so each happens at
\* most once and in this order), every step but the last performed one
\* succeeded, and the table view is requested only after a successful POST
\* and a true authentication check.
C3_StepOrder ==
    /\ Len(trace) <= Len(StepOrder)
    /\ \A i \in 1..Len(trace) : trace[i][1] = StepOrder[i]
    /\ \A i \in 1..(Len(trace) - 1) : trace[i][2] = "ok"
    /\ Performed("GET_table") =>
          /\ trace[2] = <<"POST_login", "ok">>
          /\ trace[3] = <<"check_auth", "ok">>
          /\ auth = Some(TRUE)

C3_Witness ==
    /\ pc = "exit"
    /\ Len(trace) = 6
    /\ LastStep = <<"present", "ok">>

\* C4: run() hands no exception to its caller; a failure of the login-form
\* fetch (HTTP error or form not found) is logged by the fetch, reaches the
\* top-level handler of run() and is logged at critical severity; an HTTP
\* failure of the login POST or of the table GET is logged at that step and
\* run() returns without the critical handler; a parse failure is the
\* (None, None) sentinel and never an exception.
C4_FailureRouting ==
    /\ (pc = "exit" /\ RunStarted) => exc = None
    /\ (RunStarted /\ LastStep[1] = "GET_login" /\ LastStep[2] # "ok") =>
          /\ Logged("ERROR")
          /\ pc = "run_except" => exc = Some(LastStep[2])
          /\ pc \in {"run_except", "finally", "exit"}
          /\ pc \in {"finally", "exit"} => LoggedMsg("CRITICAL", "run")
    /\ (RunStarted /\ LastStep \in {<<"POST_login", "RequestException">>,
                                   <<"GET_table", "RequestException">>}) =>
          /\ pc \in {"finally", "exit"}
          /\ exc = None
          /\ Logged("ERROR")
          /\ ~Logged("CRITICAL")
    /\ (RunStarted /\ LastStep[1] = "parse") =>
          /\ LastStep[2] \in {"ok", "fail"}
          /\ exc = None
          /\ ~Logged("CRITICAL")
          /\ LastStep[2] = "fail" => parsed = Some([headers |-> None, rows |-> None])

C4_Witness ==
    /\ pc = "exit"
    /\ RunStarted
    /\ LastStep = <<"GET_table", "RequestException">>
    /\ ~Logged("CRITICAL")

\* C10: something reaches the output sink only in, and the presenter is
\* invoked exactly in, the executions where the login form was fetched, the
\* login POST succeeded, the authentication check returned true, the table
\* GET succeeded and the parser returned a non-empty header list and a
\* non-empty row list; a presenter that the sink does not stop writes all
\* its lines.
PresentCondition ==
    /\ Len(trace) >= 5
    /\ form_data # None
    /\ trace[1] = <<"GET_login", "ok">>
    /\ trace[2] = <<"POST_login", "ok">>
    /\ auth = Some(TRUE)
    /\ trace[4] = <<"GET_table", "ok">>
    /\ parsed # None
    /\ parsed[1].headers # None /\ Len(parsed[1].headers[1]) > 0
    /\ parsed[1].rows # None /\ Len(parsed[1].rows[1]) > 0

C10_PresentIff ==
    /\ (Performed("present") \/ output # <<>>) => PresentCondition
    /\ (pc \in {"finally", "exit", "run_except"} /\ PresentCondition) => Performed("present")
    /\ (RunStarted /\ LastStep = <<"present", "ok">>) =>
          /\ Len(output) = 3 + Len(parsed[1].rows[1])
          /\ output = PrintedLines(parsed[1].headers[1], parsed[1].rows[1])

C10_Witness ==
    /\ pc = "exit"
    /\ RunStarted
    /\ LastStep = <<"present", "ok">>
    /\ Len(output) = 4

----------------------------------------------------------------------------
(* Properties of _check_auth_success, checked under SpecAuth *)

\* m occurs in body as a substring
HasSubstring(body, m) ==
    \E i \in 1..Len(body) : \E j \in i..Len(body) : SubSeq(body, i, j) = m

\* C5: _check_auth_success raises nothing, returns FALSE when the response
\* cannot be inspected, and otherwise returns TRUE exactly when the body
\* contains "frame_navigation" or "pma_navigation_tree" as a substring.
C5_AuthIffMarker ==
    pc = "auth_done" =>
        /\ exc = None
        /\ auth # None
        /\ response[1].text_raises => auth = Some(FALSE)
        /\ ~response[1].text_raises =>
              (auth[1] <=> (\/ HasSubstring(response[1].text, FrameNavigation)
                            \/ HasSubstring(response[1].text, PmaNavigationTree)))

C5_Witness ==
    /\ pc = "auth_done"
    /\ auth = Some(TRUE)
    /\ ~response[1].text_raises
    /\ HasSubstring(response[1].text, PmaNavigationTree)
    /\ ~HasSubstring(response[1].text, FrameNavigation)

----------------------------------------------------------------------------
(* Properties of the form extraction, checked under SpecForm *)

\* the hidden inputs of the form, the named ones, and those with both attributes
FormHidden == {i \in 1..Len(page[1].inputs) : page[1].inputs[i].type = "hidden"}
FormNamed == {i \in FormHidden : page[1].inputs[i].name # None}
FormPairs == {i \in FormNamed : page[1].inputs[i].value # None}
NameOf(i) == page[1].inputs[i].name[1]
ValueOf(i) == page[1].inputs[i].value[1]

----------------------------------------------------------------------------
(* Properties of _parse_table_data, checked under SpecParse *)

HeaderCells == {i \in 1..Len(html[1].ths) : html[1].ths[i].column_heading}

\* C7: on a results table with header cells and no body row the parser
\* returns (headers, []), the headers in document order, whether or not the
\* table has a tbody element.
C7_EmptyTableKeepsHeaders ==
    (pc = "parse_done" /\ html[1].table /\ HeaderCells # {} /\ html[1].trs = <<>>) =>
        /\ parsed # None
        /\ parsed[1].headers = Some(Headers(html[1].ths))
        /\ parsed[1].rows = Some(<<>>)

\* C8: on every results table the parser returns one row per tr, in order,
\* each the trimmed texts of the cells from the fifth on (an empty row when
\* there are four cells or fewer).
C8_RowsDropFour ==
    (pc = "parse_done" /\ html[1].table) =>
        /\ parsed # None
        /\ parsed[1].rows # None
        /\ Len(parsed[1].rows[1]) = Len(html[1].trs)
        /\ \A i \in 1..Len(html[1].trs) :
              LET tds == html[1].trs[i]
                  row == parsed[1].rows[1][i]
              IN  /\ Len(row) = IF Len(tds) > ActionColumns THEN Len(tds) - ActionColumns ELSE 0
                  /\ \A j \in 1..Len(row) : row[j] = Strip(tds[j + ActionColumns])

\* C9: the parser raises nothing; it returns a pair whose components are both
\* lists or both None, and the pair is (None, None) when the document has no
\* results table and when the parsing raised.
C9_ParseNeverRaises ==
    pc = "parse_done" =>
        /\ exc = None
        /\ parsed # None
        /\ (parsed[1].headers = None) <=> (parsed[1].rows = None)
        /\ ~html[1].table => parsed[1] = [headers |-> None, rows |-> None]
        /\ (html[1].table /\ ~html[1].tbody) => parsed[1] = [headers |-> None, rows |-> None]
        /\ (html[1].table /\ html[1].tbody) =>
              /\ parsed[1].headers # None /\ Len(parsed[1].headers[1]) = Cardinality(HeaderCells)
              /\ parsed[1].rows # None /\ Len(parsed[1].rows[1]) = Len(html[1].trs)

C9_Witness ==
    /\ pc = "parse_done"
    /\ html[1].table /\ ~html[1].tbody
    /\ html[1].trs # <<>>
    /\ parsed = Some([headers |-> None, rows |-> None])
    /\ LoggedMsg("ERROR", "parse_error")

====
